---- MODULE Spec2Model ----
(***************************************************************************)
(* Customer service of bt-customer-svc: the token codec                    *)
(* (handlers/auth/auth.go), the authentication middleware and the customer *)
(* handlers of customer_server.go, over a customer store; the address      *)
(* handlers of /customer/address/ behind the same middleware; and the      *)
(* creation of customers by concurrently running handlers.                 *)
(*                                                                         *)
(* Strings whose content the code inspects are sequences of one-character  *)
(* strings.  Time is counted in ticks; a second is TicksPerSecond ticks.   *)
(*                                                                         *)
(* Every record constructor lists its fields in the order TLC keeps them   *)
(* in (the order in which the names first occur in this module), so that a *)
(* record is never re-sorted while another worker reads it.                *)
(***************************************************************************)
EXTENDS Integers, Sequences, FiniteSets, TLC

VARIABLES store, nextId, now, last, codec, addressStore, nextAddressId, inflight,
          deletedWith

vars == <<store, nextId, now, last, codec, addressStore, nextAddressId, inflight,
          deletedWith>>

\* the state outside the customer server, the clock and the codec
rest == <<addressStore, nextAddressId, inflight, deletedWith>>

----------------------------------------------------------------------------
(* Bounds *)

\* ticks in one second (time.Second seen at sub-second resolution)
TicksPerSecond == 2
\* last instant of the clock, in ticks
MaxNow == 2
\* number of customers the store ever assigns an id to
MaxId == 2

----------------------------------------------------------------------------
(* strconv *)

Digits == <<"0", "1", "2", "3", "4", "5", "6", "7", "8", "9">>

IsDigit(c) == \E i \in 1..10 : Digits[i] = c

DigitVal(c) == (CHOOSE i \in 1..10 : Digits[i] = c) - 1

RECURSIVE ItoaNat(_)
ItoaNat(n) == IF n < 10 THEN <<Digits[n + 1]>>
              ELSE Append(ItoaNat(n \div 10), Digits[(n % 10) + 1])

\* strconv.Itoa / strconv.FormatInt(_, 10)
Itoa(n) == IF n < 0 THEN <<"-">> \o ItoaNat(0 - n) ELSE ItoaNat(n)

RECURSIVE DigitsVal(_)
DigitsVal(s) == IF Len(s) = 0 THEN 0
                ELSE 10 * DigitsVal(SubSeq(s, 1, Len(s) - 1)) + DigitVal(s[Len(s)])

\* strconv.Atoi: optional sign, then one or more decimal digits
Atoi(s) ==
  LET signed == Len(s) > 0 /\ s[1] \in {"+", "-"}
      body == IF signed THEN SubSeq(s, 2, Len(s)) ELSE s
  IN IF Len(body) = 0 \/ \E i \in 1..Len(body) : ~IsDigit(body[i])
       THEN [ok |-> FALSE, val |-> 0]
       ELSE [ok |-> TRUE,
             val |-> IF signed /\ s[1] = "-" THEN 0 - DigitsVal(body) ELSE DigitsVal(body)]

----------------------------------------------------------------------------
(* Token codec *)

HS256 == "HS256"

\* exp claim left out of the token
NoExp == -1

\* jwt.NewNumericDate: the instant truncated to whole seconds
NewNumericDate(t) == t \div TicksPerSecond

\* the signature of a token: a keyed MAC over header and claims, empty for "none"
Sign(alg, key, sub, exp) == IF alg = "none" THEN <<>> ELSE <<alg, key, Len(sub), sub, exp>>

SignedString(alg, key, sub, exp) ==
  [alg |-> alg, sub |-> sub, exp |-> exp, wf |-> TRUE, sig |-> Sign(alg, key, sub, exp)]

\* a string that is not a JWT, such as "thisIsAnInvalidJWT"
MalformedJWT == [alg |-> "", sub |-> <<>>, exp |-> NoExp, wf |-> FALSE, sig |-> <<>>]

\* GenerateJWT taking expiresAt for the instant of expiry, not a duration from now
GenerateJWT_AbsoluteExpiry(secretKey, expiresAt, subject, t) ==
  SignedString(HS256, secretKey, Itoa(subject), NewNumericDate(expiresAt))

GenerateJWT(secretKey, expiresAt, subject, t) ==
  SignedString(HS256, secretKey, Itoa(subject), NewNumericDate(t + expiresAt))

GenerateJWTWithStringSubject(secretKey, expiresAt, subject, t) ==
  SignedString(HS256, secretKey, subject, NewNumericDate(t + expiresAt))

GenerateJWTWithoutSubject(secretKey, expiresAt, t) ==
  SignedString(HS256, secretKey, <<>>, NewNumericDate(t + expiresAt))

\* VerifyJWT accepting a token at the very instant it expires
VerifyJWT_ExpiryInclusive(jwtString, secretKey, t) ==
  IF ~jwtString.wf
    THEN [ok |-> FALSE, err |-> "token is malformed"]
  ELSE IF jwtString.alg # HS256
    THEN [ok |-> FALSE, err |-> "signing method is invalid"]
  ELSE IF jwtString.sig # Sign(jwtString.alg, secretKey, jwtString.sub, jwtString.exp)
    THEN [ok |-> FALSE, err |-> "signature is invalid"]
  ELSE IF jwtString.exp # NoExp /\ ~(t <= jwtString.exp * TicksPerSecond)
    THEN [ok |-> FALSE, err |-> "token is expired"]
  ELSE [ok |-> TRUE, err |-> ""]

\* VerifyJWT without WithValidMethods: any keyed algorithm is accepted
VerifyJWT_AnyMethod(jwtString, secretKey, t) ==
  IF ~jwtString.wf
    THEN [ok |-> FALSE, err |-> "token is malformed"]
  ELSE IF jwtString.alg = "none"
    THEN [ok |-> FALSE, err |-> "signing method is invalid"]
  ELSE IF jwtString.sig # Sign(jwtString.alg, secretKey, jwtString.sub, jwtString.exp)
    THEN [ok |-> FALSE, err |-> "signature is invalid"]
  ELSE IF jwtString.exp # NoExp /\ ~(t < jwtString.exp * TicksPerSecond)
    THEN [ok |-> FALSE, err |-> "token is expired"]
  ELSE [ok |-> TRUE, err |-> ""]

\* jwt.Parse with WithValidMethods([HS256]): shape, algorithm, signature, expiry
VerifyJWT(jwtString, secretKey, t) ==
  IF ~jwtString.wf
    THEN [ok |-> FALSE, err |-> "token is malformed"]
  ELSE IF jwtString.alg # HS256
    THEN [ok |-> FALSE, err |-> "signing method is invalid"]
  ELSE IF jwtString.sig # Sign(jwtString.alg, secretKey, jwtString.sub, jwtString.exp)
    THEN [ok |-> FALSE, err |-> "signature is invalid"]
  ELSE IF jwtString.exp # NoExp /\ ~(t < jwtString.exp * TicksPerSecond)
    THEN [ok |-> FALSE, err |-> "token is expired"]
  ELSE [ok |-> TRUE, err |-> ""]

\* the error values of package handlers, named as the error taxonomy names them
ErrMissingToken == "MissingToken"
ErrMissingSubject == "MissingSubject"
ErrNonIntegerSubject == "NonIntegerSubject"
ErrMissingCustomer == "MissingCustomer"
ErrInvalidCredentials == "InvalidCredentials"
ErrExistingUser == "ExistingUser"
ErrInvalidRequestField == "ValidationFailed"

\* getIDFromToken dropping the error of strconv.Atoi
getIDFromToken_AtoiErrorDropped(token) ==
  IF token.sub = <<>>
    THEN [err |-> ErrMissingSubject, id |-> -1]
  ELSE [err |-> "", id |-> Atoi(token.sub).val]

getIDFromToken(token) ==
  IF token.sub = <<>>
    THEN [err |-> ErrMissingSubject, id |-> -1]
  ELSE IF ~Atoi(token.sub).ok
    THEN [err |-> ErrNonIntegerSubject, id |-> -1]
  ELSE [err |-> "", id |-> Atoi(token.sub).val]

----------------------------------------------------------------------------
(* Request validation *)

Rep(c, n) == [i \in 1..n |-> c]

\* govalidator stringlength(min|max)
StringLength(str, min, max) == Len(str) >= min /\ Len(str) <= max

\* govalidator required
Required(str) == Len(str) > 0

\* the phonenumber rule: ^\+[\d ]+$
phonenumber(str) ==
  /\ Len(str) >= 2
  /\ str[1] = "+"
  /\ \A i \in 2..Len(str) : IsDigit(str[i]) \/ str[i] = " "

\* govalidator email: one "@" with a non-empty local part and domain, no blanks
email(str) ==
  /\ Cardinality({i \in 1..Len(str) : str[i] = "@"}) = 1
  /\ str[1] # "@" /\ str[Len(str)] # "@"
  /\ \A i \in 1..Len(str) : str[i] # " "

CreateCustomerRequest(b) ==
  /\ StringLength(b.FirstName, 2, 20) /\ Required(b.FirstName)
  /\ StringLength(b.LastName, 2, 20) /\ Required(b.LastName)
  /\ phonenumber(b.PhoneNumber) /\ Required(b.PhoneNumber)
  /\ email(b.Email) /\ Required(b.Email)
  /\ StringLength(b.Password, 2, 72) /\ Required(b.Password)

LoginCustomerRequest(b) ==
  /\ email(b.Email) /\ Required(b.Email)
  /\ StringLength(b.Password, 2, 72) /\ Required(b.Password)

UpdateCustomerRequest(b) ==
  /\ StringLength(b.FirstName, 2, 20) /\ Required(b.FirstName)
  /\ StringLength(b.LastName, 2, 20) /\ Required(b.LastName)
  /\ phonenumber(b.PhoneNumber) /\ Required(b.PhoneNumber)
  /\ email(b.Email) /\ Required(b.Email)
  /\ StringLength(b.Password, 2, 72) /\ Required(b.Password)

\* ValidateRequest: decode the JSON body into the target struct, then check the
\* rules of that struct
ValidateRequest(body, target) ==
  LET rules == CASE target = "CreateCustomerRequest" -> CreateCustomerRequest(body)
                 [] target = "LoginCustomerRequest" -> LoginCustomerRequest(body)
                 [] target = "UpdateCustomerRequest" -> UpdateCustomerRequest(body)
  IN IF ~body.json THEN [ok |-> FALSE, err |-> "malformed body"]
     ELSE IF ~rules THEN [ok |-> FALSE, err |-> ErrInvalidRequestField]
     ELSE [ok |-> TRUE, err |-> ""]

----------------------------------------------------------------------------
(* Customer store: a set of Customer records keyed by Id *)

NilCustomer == [FirstName |-> <<>>, LastName |-> <<>>, PhoneNumber |-> <<>>,
                Email |-> <<>>, Password |-> <<>>, Id |-> 0]

\* GetCustomerById: (customer, nil), or (nil, error) when no record has the id
GetCustomerById(st, id) ==
  IF \E c \in st : c.Id = id
    THEN [c |-> CHOOSE c \in st : c.Id = id, err |-> FALSE]
    ELSE [c |-> NilCustomer, err |-> TRUE]

\* GetCustomerByEmail: the results the store may give, a record with that email
\* or (nil, error) when there is none
GetCustomerByEmail(st, mail) ==
  IF \E c \in st : c.Email = mail
    THEN {[c |-> c, err |-> FALSE] : c \in {d \in st : d.Email = mail}}
    ELSE {[c |-> NilCustomer, err |-> TRUE]}

\* StoreCustomer: the store assigns the next id and keeps the record under it
StoreCustomer(st, nid, customer) ==
  [store |-> st \cup {[customer EXCEPT !.Id = nid]}, nextId |-> nid + 1, id |-> nid]

\* DeleteCustomer: removes the record with the id, an error when there is none
DeleteCustomer(st, id) ==
  [store |-> {c \in st : c.Id # id}, err |-> ~\E c \in st : c.Id = id]

\* UpdateCustomer: replaces the record that has the customer's id
UpdateCustomer(st, customer) ==
  [store |-> IF \E c \in st : c.Id = customer.Id
               THEN {c \in st : c.Id # customer.Id} \cup {customer}
               ELSE st,
   err |-> ~\E c \in st : c.Id = customer.Id]

----------------------------------------------------------------------------
(* http.ResponseWriter *)

StatusOK == 200
StatusAccepted == 202
StatusBadRequest == 400
StatusUnauthorized == 401
StatusNotFound == 404

NoBody == [FirstName |-> <<>>, LastName |-> <<>>, PhoneNumber |-> <<>>, Email |-> <<>>,
           kind |-> "none", Message |-> ""]

\* ErrorResponse{Message}
ErrorResponse(msg) == [NoBody EXCEPT !.kind = "error", !.Message = msg]

\* a fresh response: nothing written, header is the map w.Header() returns,
\* sent the headers that went out with the status line
NewResponse == [body |-> NoBody, code |-> 0, wrote |-> FALSE, header |-> <<>>, sent |-> <<>>]

\* w.WriteHeader: the first call fixes the status and sends the header map as it is
WriteHeader(w, code) ==
  IF w.wrote THEN w ELSE [w EXCEPT !.code = code, !.wrote = TRUE, !.sent = w.header]

\* w.Header().Add("Token", v)
HeaderAddToken(w, v) == [w EXCEPT !.header = Append(@, v)]

\* json.NewEncoder(w).Encode(v): a Write, which sends status 200 if none was sent
Encode(w, v) == [WriteHeader(w, StatusOK) EXCEPT !.body = v]

----------------------------------------------------------------------------
(* CustomerServer *)

\* c.secretKey
secretKey == "k1"

\* c.expiresAt: tokens are issued for one second
expiresAt == TicksPerSecond

\* What one request has done so far: the response, the store, the store calls
\* made, the tokens generated, the handler behind the gate that ran and the
\* Subject values it read.
NewContext(st, nid) ==
  [store |-> st, nextId |-> nid, subject |-> <<>>, w |-> NewResponse, calls |-> <<>>,
   issued |-> <<>>, panicked |-> FALSE, handler |-> "none"]

Fail(cx, code, msg) == [cx EXCEPT !.w = Encode(WriteHeader(cx.w, code), ErrorResponse(msg))]

Called(cx, name) == [cx EXCEPT !.calls = Append(@, name)]

\* LoginHandler without the comparison of passwords
LoginHandler_PasswordUnchecked(cx, r, found, t) ==
  LET v == ValidateRequest(r.Body, "LoginCustomerRequest")
      c1 == [cx EXCEPT !.calls = Append(@, "GetCustomerByEmail")]
      loginJWT == GenerateJWT(secretKey, expiresAt, found.c.Id, t)
  IN IF ~v.ok
       THEN [cx EXCEPT !.w = Encode(WriteHeader(cx.w, StatusBadRequest), ErrorResponse(v.err))]
     ELSE IF found.err
       THEN [c1 EXCEPT !.w = Encode(WriteHeader(c1.w, StatusUnauthorized),
                                    ErrorResponse(ErrMissingCustomer))]
     ELSE [c1 EXCEPT !.issued = Append(@, loginJWT),
                     !.w = HeaderAddToken(WriteHeader(c1.w, StatusAccepted), loginJWT)]

LoginHandler(cx, r, found, t) ==
  LET v == ValidateRequest(r.Body, "LoginCustomerRequest")
      c1 == Called(cx, "GetCustomerByEmail")
      loginJWT == GenerateJWT(secretKey, expiresAt, found.c.Id, t)
  IN IF ~v.ok THEN Fail(cx, StatusBadRequest, v.err)
     ELSE IF found.err THEN Fail(c1, StatusUnauthorized, ErrMissingCustomer)
     ELSE IF found.c.Password # r.Body.Password
       THEN Fail(c1, StatusUnauthorized, ErrInvalidCredentials)
     ELSE [c1 EXCEPT !.issued = Append(@, loginJWT),
                     !.w = HeaderAddToken(WriteHeader(c1.w, StatusAccepted), loginJWT)]

newGetCustomerResponse(customer) ==
  [FirstName |-> customer.FirstName,
   LastName |-> customer.LastName,
   PhoneNumber |-> customer.PhoneNumber,
   Email |-> customer.Email,
   kind |-> "customer", Message |-> ""]

getCustomer(cx, r) ==
  LET id == Atoi(r.Subject[1]).val
      got == GetCustomerById(cx.store, id)
      c1 == Called([cx EXCEPT !.handler = "getCustomer", !.subject = r.Subject],
                   "GetCustomerById")
  IN IF got.err THEN Fail(c1, StatusNotFound, ErrMissingCustomer)
     ELSE [c1 EXCEPT !.w = Encode(c1.w, newGetCustomerResponse(got.c))]

deleteCustomer(cx, r) ==
  LET id == Atoi(r.Subject[1]).val
      del == DeleteCustomer(cx.store, id)
      c1 == Called([cx EXCEPT !.handler = "deleteCustomer", !.subject = r.Subject,
                              !.store = del.store],
                   "DeleteCustomer")
  IN IF del.err THEN Fail(c1, StatusNotFound, ErrMissingCustomer)
     ELSE c1

\* updateCustomer without the return after the validation error is written
updateCustomer_NoReturnOnInvalid(cx, r) ==
  LET id == Atoi(r.Subject[1]).val
      got == GetCustomerById(cx.store, id)
      c1 == Called([cx EXCEPT !.handler = "updateCustomer", !.subject = r.Subject],
                   "GetCustomerById")
      v == ValidateRequest(r.Body, "UpdateCustomerRequest")
      c2 == IF v.ok THEN c1 ELSE Fail(c1, StatusBadRequest, v.err)
      customer == [got.c EXCEPT !.FirstName = r.Body.FirstName,
                                !.LastName = r.Body.LastName,
                                !.Email = r.Body.Email,
                                !.PhoneNumber = r.Body.PhoneNumber,
                                !.Password = r.Body.Password]
  IN IF got.err THEN [c2 EXCEPT !.panicked = TRUE]
     ELSE [Called(c2, "UpdateCustomer") EXCEPT
             !.store = UpdateCustomer(c2.store, customer).store]

\* The customer is a nil pointer when the store has no record of the id: the
\* first field assignment then panics and the request ends without a response.
updateCustomer(cx, r) ==
  LET id == Atoi(r.Subject[1]).val
      got == GetCustomerById(cx.store, id)
      c1 == Called([cx EXCEPT !.handler = "updateCustomer", !.subject = r.Subject],
                   "GetCustomerById")
      v == ValidateRequest(r.Body, "UpdateCustomerRequest")
      customer == [got.c EXCEPT !.FirstName = r.Body.FirstName,
                                !.LastName = r.Body.LastName,
                                !.Email = r.Body.Email,
                                !.PhoneNumber = r.Body.PhoneNumber,
                                !.Password = r.Body.Password]
  IN IF ~v.ok THEN Fail(c1, StatusBadRequest, v.err)
     ELSE IF got.err THEN [c1 EXCEPT !.panicked = TRUE]
     ELSE [Called(c1, "UpdateCustomer") EXCEPT
             !.store = UpdateCustomer(c1.store, customer).store]

getCustomerFromCreateCustomerRequest(createCustomerRequest) ==
  [FirstName |-> createCustomerRequest.FirstName,
   LastName |-> createCustomerRequest.LastName,
   PhoneNumber |-> createCustomerRequest.PhoneNumber,
   Email |-> createCustomerRequest.Email,
   Password |-> createCustomerRequest.Password,
   Id |-> 0]

\* storeCustomer without the look-up of the email before storing
storeCustomer_EmailUnchecked(cx, r, found, t) ==
  LET v == ValidateRequest(r.Body, "CreateCustomerRequest")
      customer == getCustomerFromCreateCustomerRequest(r.Body)
      stored == StoreCustomer(cx.store, cx.nextId, customer)
      c2 == [cx EXCEPT !.calls = Append(@, "StoreCustomer"), !.store = stored.store,
                       !.nextId = stored.nextId]
      customerJWT == GenerateJWT(secretKey, expiresAt, stored.id, t)
  IN IF ~v.ok
       THEN [cx EXCEPT !.w = Encode(WriteHeader(cx.w, StatusBadRequest), ErrorResponse(v.err))]
     ELSE [c2 EXCEPT !.issued = Append(@, customerJWT),
                     !.w = HeaderAddToken(WriteHeader(c2.w, StatusAccepted), customerJWT)]

storeCustomer(cx, r, found, t) ==
  LET v == ValidateRequest(r.Body, "CreateCustomerRequest")
      c1 == Called(cx, "GetCustomerByEmail")
      customer == getCustomerFromCreateCustomerRequest(r.Body)
      stored == StoreCustomer(cx.store, cx.nextId, customer)
      c2 == [Called(c1, "StoreCustomer") EXCEPT !.store = stored.store,
                                                !.nextId = stored.nextId]
      customerJWT == GenerateJWT(secretKey, expiresAt, stored.id, t)
  IN IF ~v.ok THEN Fail(cx, StatusBadRequest, v.err)
     ELSE IF ~found.err THEN Fail(c1, StatusBadRequest, ErrExistingUser)
     ELSE [c2 EXCEPT !.issued = Append(@, customerJWT),
                     !.w = HeaderAddToken(WriteHeader(c2.w, StatusAccepted), customerJWT)]

----------------------------------------------------------------------------
(* CustomerAddressServer: the handlers of /customer/address/ over an address
   store and the customer store, behind the same gate *)

ErrMissingAddress == "MissingAddress"
ErrUnathorizedAction == "UnauthorizedAction"

NilAddress == [Id |-> 0, CustomerId |-> 0, City |-> <<>>]

\* GetAddressById: (address, nil), or (nil, error) when no address has the id
GetAddressById(ast, id) ==
  IF \E a \in ast : a.Id = id
    THEN [c |-> CHOOSE a \in ast : a.Id = id, err |-> FALSE]
    ELSE [c |-> NilAddress, err |-> TRUE]

\* StoreAddress: the store assigns the next id and keeps the address under it
StoreAddress(ast, naid, address) ==
  [addressStore |-> ast \cup {[address EXCEPT !.Id = naid]}, nextAddressId |-> naid + 1]

\* UpdateAddress: replaces the address that has the id
UpdateAddress(ast, address) ==
  {a \in ast : a.Id # address.Id} \cup {address}

\* DeleteAddress: removes the address with the id
DeleteAddress(ast, id) == {a \in ast : a.Id # id}

\* the payload of an add or update request: the address fields are required
AddressRequest(b) == Required(b.City)

\* the payload of a delete request: the id of the address
DeleteAddressRequest(b) == b.Id > 0

ValidateAddressRequest(body, target) ==
  LET rules == CASE target = "DeleteAddressRequest" -> DeleteAddressRequest(body)
                 [] OTHER -> AddressRequest(body)
  IN IF ~body.json THEN [ok |-> FALSE, err |-> "malformed body"]
     ELSE IF ~rules THEN [ok |-> FALSE, err |-> ErrInvalidRequestField]
     ELSE [ok |-> TRUE, err |-> ""]

\* What one address request has done so far
NewAddressContext(st, ast, naid) ==
  [store |-> st, addressStore |-> ast, nextAddressId |-> naid, subject |-> <<>>,
   w |-> NewResponse, calls |-> <<>>, issued |-> <<>>, panicked |-> FALSE,
   handler |-> "none"]

\* POST /customer/address/: validate, load the customer, store the address
\* under the customer's id
addAddress(cx, r) ==
  LET id == Atoi(r.Subject[1]).val
      c0 == [cx EXCEPT !.handler = "addAddress", !.subject = r.Subject]
      v == ValidateAddressRequest(r.Body, "AddAddressRequest")
      c1 == Called(c0, "GetCustomerById")
      stored == StoreAddress(cx.addressStore, cx.nextAddressId,
                             [Id |-> 0, CustomerId |-> id, City |-> r.Body.City])
  IN IF ~v.ok THEN Fail(c0, StatusBadRequest, v.err)
     ELSE IF GetCustomerById(cx.store, id).err
       THEN Fail(c1, StatusNotFound, ErrMissingCustomer)
     ELSE [Called(c1, "StoreAddress") EXCEPT
             !.addressStore = stored.addressStore,
             !.nextAddressId = stored.nextAddressId]

\* PUT /customer/address/: validate, load the customer, load the address,
\* compare the address's customer id with the subject, update
updateAddress(cx, r) ==
  LET id == Atoi(r.Subject[1]).val
      c0 == [cx EXCEPT !.handler = "updateAddress", !.subject = r.Subject]
      v == ValidateAddressRequest(r.Body, "UpdateAddressRequest")
      c1 == Called(c0, "GetCustomerById")
      c2 == Called(c1, "GetAddressById")
      got == GetAddressById(cx.addressStore, r.Body.Id)
      address == [got.c EXCEPT !.City = r.Body.City]
  IN IF ~v.ok THEN Fail(c0, StatusBadRequest, v.err)
     ELSE IF GetCustomerById(cx.store, id).err
       THEN Fail(c1, StatusNotFound, ErrMissingCustomer)
     ELSE IF got.err THEN Fail(c2, StatusNotFound, ErrMissingAddress)
     ELSE IF got.c.CustomerId # id
       THEN Fail(c2, StatusUnauthorized, ErrUnathorizedAction)
     ELSE [Called(c2, "UpdateAddress") EXCEPT
             !.addressStore = UpdateAddress(cx.addressStore, address)]

\* DELETE /customer/address/: the same checks, then the address is removed
deleteAddress(cx, r) ==
  LET id == Atoi(r.Subject[1]).val
      c0 == [cx EXCEPT !.handler = "deleteAddress", !.subject = r.Subject]
      v == ValidateAddressRequest(r.Body, "DeleteAddressRequest")
      c1 == Called(c0, "GetCustomerById")
      c2 == Called(c1, "GetAddressById")
      got == GetAddressById(cx.addressStore, r.Body.Id)
  IN IF ~v.ok THEN Fail(c0, StatusBadRequest, v.err)
     ELSE IF GetCustomerById(cx.store, id).err
       THEN Fail(c1, StatusNotFound, ErrMissingCustomer)
     ELSE IF got.err THEN Fail(c2, StatusNotFound, ErrMissingAddress)
     ELSE IF got.c.CustomerId # id
       THEN Fail(c2, StatusUnauthorized, ErrUnathorizedAction)
     ELSE [Called(c2, "DeleteAddress") EXCEPT
             !.addressStore = DeleteAddress(cx.addressStore, r.Body.Id)]

----------------------------------------------------------------------------
(* The gate and the routers *)

\* The gate in front of an authenticated handler.  The parsed id is added to
\* the request's Subject header values, behind the values already there.
AuthenticationMiddleware(endpointHandler, key, cx, r, t) ==
  IF r.Token = <<>> THEN Fail(cx, StatusUnauthorized, ErrMissingToken)
  ELSE LET verified == VerifyJWT(r.Token[1], key, t)
           parsed == getIDFromToken(r.Token[1])
       IN IF ~verified.ok THEN Fail(cx, StatusUnauthorized, verified.err)
          ELSE IF parsed.err # "" THEN Fail(cx, StatusUnauthorized, parsed.err)
          ELSE LET authenticated == [r EXCEPT !.Subject = Append(@, Itoa(parsed.id))]
               IN CASE endpointHandler = "getCustomer" -> getCustomer(cx, authenticated)
                    [] endpointHandler = "deleteCustomer" -> deleteCustomer(cx, authenticated)
                    [] endpointHandler = "updateCustomer" -> updateCustomer(cx, authenticated)
                    [] endpointHandler = "addAddress" -> addAddress(cx, authenticated)
                    [] endpointHandler = "updateAddress" -> updateAddress(cx, authenticated)
                    [] endpointHandler = "deleteAddress" -> deleteAddress(cx, authenticated)

CustomerHandler(cx, r, found, t) ==
  CASE r.Method = "POST" -> storeCustomer(cx, r, found, t)
    [] r.Method = "GET" -> AuthenticationMiddleware("getCustomer", secretKey, cx, r, t)
    [] r.Method = "DELETE" -> AuthenticationMiddleware("deleteCustomer", secretKey, cx, r, t)
    [] r.Method = "PUT" -> AuthenticationMiddleware("updateCustomer", secretKey, cx, r, t)
    [] OTHER -> cx

\* The router of NewCustomerServer, and net/http around the handler: a handler
\* that returns without writing sends status 200, one that panics sends nothing.
ServeHTTP(cx, r, found, t) ==
  LET done == IF r.Path = "/customer/login/" THEN LoginHandler(cx, r, found, t)
              ELSE CustomerHandler(cx, r, found, t)
  IN IF done.panicked THEN done ELSE [done EXCEPT !.w = WriteHeader(@, StatusOK)]

\* The router of NewCustomerAddressServer with net/http around the handler
AddressServeHTTP(cx, r, t) ==
  LET done == CASE r.Method = "POST" ->
                     AuthenticationMiddleware("addAddress", secretKey, cx, r, t)
                [] r.Method = "PUT" ->
                     AuthenticationMiddleware("updateAddress", secretKey, cx, r, t)
                [] r.Method = "DELETE" ->
                     AuthenticationMiddleware("deleteAddress", secretKey, cx, r, t)
                [] OTHER -> cx
  IN IF done.panicked THEN done ELSE [done EXCEPT !.w = WriteHeader(@, StatusOK)]

----------------------------------------------------------------------------
(* The requests clients send *)

Keys == {"k1", "k2"}

Algs == {HS256, "HS384", "none"}

ExpSeconds == {NoExp} \cup 0..((MaxNow \div TicksPerSecond) + 1)

\* an expiry no instant of the clock reaches
FarExp == (MaxNow \div TicksPerSecond) + 1

\* subjects that parse to a customer id: with every expiry
IdSubjects == {<<"1">>, <<"2">>}

\* subjects that are empty, not an integer, written with a leading zero, or
\* the id of no customer
OddSubjects == {<<>>, <<"x">>, <<"0", "1">>, <<"9">>}

\* tokens under the server's key and algorithm
ServerKeyTokens ==
  {SignedString(HS256, secretKey, s, e) : s \in IdSubjects, e \in ExpSeconds}
  \cup {SignedString(HS256, secretKey, s, FarExp) : s \in OddSubjects}

\* unexpired tokens under another key or another algorithm
ForeignTokens ==
  {SignedString(a, k, <<"1">>, FarExp) : a \in Algs, k \in Keys}
  \ {SignedString(HS256, secretKey, <<"1">>, FarExp)}

\* a server token whose subject was rewritten after signing
TamperedTokens ==
  {[SignedString(HS256, secretKey, <<"1">>, FarExp) EXCEPT !.sub = <<"2">>]}

Tokens == ServerKeyTokens \cup ForeignTokens \cup TamperedTokens \cup {MalformedJWT}

\* the values of the request's Token header, <<>> when the header is absent
TokenHeaders == {<<>>} \cup {<<tok>> : tok \in Tokens}

\* the values of a Subject header the client sends itself
SubjectHeaders == {<<>>, << <<"2">> >>}

Body(fn, ln, ph, em, pw) ==
  [FirstName |-> fn, LastName |-> ln, PhoneNumber |-> ph, Email |-> em,
   Password |-> pw, json |-> TRUE]

Peter == Body(<<"P", "e">>, <<"S", "m">>, <<"+", "3", " ", "5">>, <<"a", "@", "b">>, <<"p", "w">>)
Alice == Body(<<"A", "l">>, <<"J", "o">>, <<"+", "4">>, <<"c", "@", "d">>, <<"q", "q">>)

ValidBodies == {Peter, Alice}

InvalidBodies ==
  {[Peter EXCEPT !.json = FALSE],
   [Peter EXCEPT !.PhoneNumber = <<"a", "b", "c">>],
   [Peter EXCEPT !.PhoneNumber = <<"+">>],
   [Peter EXCEPT !.FirstName = <<"P">>],
   [Alice EXCEPT !.FirstName = Rep("a", 21)],
   [Alice EXCEPT !.LastName = <<>>],
   [Peter EXCEPT !.Email = <<"a", "b">>],
   [Alice EXCEPT !.Password = Rep("x", 73)]}

CustomerBodies == ValidBodies \cup InvalidBodies

\* the bodies sent with PUT: the valid ones, one that is not JSON and one with
\* the phone number "abc"
UpdateBodies ==
  ValidBodies \cup {[Peter EXCEPT !.json = FALSE],
                    [Peter EXCEPT !.PhoneNumber = <<"a", "b", "c">>]}

EmptyBody == [FirstName |-> <<>>, LastName |-> <<>>, PhoneNumber |-> <<>>,
              Email |-> <<>>, Password |-> <<>>, json |-> FALSE]

LoginBodies ==
  {Body(<<>>, <<>>, <<>>, em, pw) :
     em \in {<<"a", "@", "b">>, <<"c", "@", "d">>, <<"e", "@", "f">>, <<"a", "b">>},
     pw \in {<<"p", "w">>, <<"q", "q">>, <<"p">>}}

Request(method, path, token, subject, body) ==
  [Body |-> body, Subject |-> subject, Token |-> token, Method |-> method, Path |-> path]

NoRequest == Request("", "", <<>>, <<>>, EmptyBody)

\* the tokens sent to the address server: none, a malformed one, an expired
\* one, and unexpired ones for customers 1 and 2 and for the id of no customer
AddressTokenHeaders ==
  {<<>>, <<MalformedJWT>>, <<SignedString(HS256, secretKey, <<"1">>, 0)>>}
  \cup {<<SignedString(HS256, secretKey, s, FarExp)>> : s \in {<<"1">>, <<"2">>, <<"9">>}}

AddressBody(id, city) == [json |-> TRUE, Id |-> id, City |-> city]

\* an address as a client first sends it
NewAddressBodies == {AddressBody(0, <<"S", "o">>), AddressBody(0, <<>>)}

\* the bodies sent with PUT: a changed city for an address id the store may
\* hold or has never assigned, an empty address, and a body that is not JSON
UpdateAddressBodies ==
  {AddressBody(id, <<"V", "a">>) : id \in 1..(MaxId + 1)}
  \cup {AddressBody(0, <<>>), [AddressBody(1, <<"V", "a">>) EXCEPT !.json = FALSE]}

\* the bodies sent with DELETE: an address id, or nothing
DeleteAddressBodies ==
  {AddressBody(id, <<>>) : id \in 1..(MaxId + 1)}
  \cup {[AddressBody(0, <<>>) EXCEPT !.json = FALSE]}

----------------------------------------------------------------------------
(* The server handling requests one at a time *)

NoCodec == [ok |-> FALSE, alg |-> "", subject |-> 0, token |-> MalformedJWT, id |-> -1,
            phase |-> "idle", signKey |-> "", expiry |-> 0, issuedAt |-> 0,
            generated |-> FALSE, verifyKey |-> "", verifiedAt |-> 0]

\* the goroutines net/http runs the handler on, one for each request
Handlers == {1, 2}

\* a goroutine with no request
IdleHandler == [w |-> NewResponse, calls |-> <<>>, issued |-> <<>>, r |-> NoRequest,
                pc |-> "idle"]

NoInflight == [h \in Handlers |-> IdleHandler]

\* no request in hand
Idle == [subject |-> <<>>, w |-> NewResponse, calls |-> <<>>, issued |-> <<>>,
         panicked |-> FALSE, handler |-> "none", r |-> NoRequest, op |-> "none",
         pre |-> {}, at |-> 0, preAddresses |-> {}]

Init ==
  /\ store = {}
  /\ nextId = 1
  /\ now = 0
  /\ last = Idle
  /\ codec = NoCodec
  /\ addressStore = {}
  /\ nextAddressId = 1
  /\ inflight = NoInflight
  /\ deletedWith = {}

\* one request served from arrival to response
Serve(op, r) ==
  \E found \in GetCustomerByEmail(store, r.Body.Email) :
    LET cx == ServeHTTP(NewContext(store, nextId), r, found, now)
    IN /\ last.op = "none"
       /\ cx.nextId <= MaxId + 1
       /\ store' = cx.store
       /\ nextId' = cx.nextId
       /\ last' = [subject |-> cx.subject, w |-> cx.w, calls |-> cx.calls,
                   issued |-> cx.issued, panicked |-> cx.panicked,
                   handler |-> cx.handler, r |-> r, op |-> op, pre |-> store,
                   at |-> now, preAddresses |-> addressStore]
       /\ UNCHANGED <<now, codec, rest>>

CreateCustomer ==
  \E body \in CustomerBodies :
    Serve("create", Request("POST", "/customer/", <<>>, <<>>, body))

Login ==
  \E body \in LoginBodies :
    Serve("login", Request("POST", "/customer/login/", <<>>, <<>>, body))

GetCustomer ==
  \E token \in TokenHeaders, subject \in SubjectHeaders :
    Serve("get", Request("GET", "/customer/", token, subject, EmptyBody))

DeleteCustomerRequest ==
  \E token \in TokenHeaders, subject \in SubjectHeaders :
    Serve("delete", Request("DELETE", "/customer/", token, subject, EmptyBody))

UpdateCustomerRequestSent ==
  \E token \in TokenHeaders, subject \in SubjectHeaders, body \in UpdateBodies :
    Serve("update", Request("PUT", "/customer/", token, subject, body))

\* a method the switch of CustomerHandler has no case for
OtherMethod ==
  Serve("other", Request("PATCH", "/customer/", <<>>, <<>>, EmptyBody))

\* the exchange is over: the response has gone out and the server waits for
\* the next request
Complete ==
  /\ last.op # "none"
  /\ last' = Idle
  /\ UNCHANGED <<store, nextId, now, codec, rest>>

Tick ==
  /\ now < MaxNow
  /\ now' = now + 1
  /\ UNCHANGED <<store, nextId, last, codec, rest>>

Next ==
  \/ CreateCustomer
  \/ Login
  \/ GetCustomer
  \/ DeleteCustomerRequest
  \/ UpdateCustomerRequestSent
  \/ OtherMethod
  \/ Complete
  \/ Tick

Spec == Init /\ [][Next]_vars

----------------------------------------------------------------------------
(* The address server handling requests one at a time, next to the creation of
   customers *)

\* one address request served from arrival to response
AddressServe(op, r) ==
  LET cx == AddressServeHTTP(NewAddressContext(store, addressStore, nextAddressId), r, now)
  IN /\ last.op = "none"
     /\ cx.nextAddressId <= MaxId + 1
     /\ addressStore' = cx.addressStore
     /\ nextAddressId' = cx.nextAddressId
     /\ last' = [subject |-> cx.subject, w |-> cx.w, calls |-> cx.calls,
                 issued |-> cx.issued, panicked |-> cx.panicked,
                 handler |-> cx.handler, r |-> r, op |-> op, pre |-> store,
                 at |-> now, preAddresses |-> addressStore]
     /\ UNCHANGED <<store, nextId, now, codec, inflight, deletedWith>>

AddAddress ==
  \E token \in AddressTokenHeaders, subject \in SubjectHeaders, body \in NewAddressBodies :
    AddressServe("addAddress", Request("POST", "/customer/address/", token, subject, body))

UpdateAddressRequestSent ==
  \E token \in AddressTokenHeaders, subject \in SubjectHeaders,
     body \in UpdateAddressBodies :
    AddressServe("updateAddress", Request("PUT", "/customer/address/", token, subject, body))

DeleteAddressRequestSent ==
  \E token \in AddressTokenHeaders, subject \in SubjectHeaders,
     body \in DeleteAddressBodies :
    AddressServe("deleteAddress",
                 Request("DELETE", "/customer/address/", token, subject, body))

AddressNext ==
  \/ CreateCustomer
  \/ AddAddress
  \/ UpdateAddressRequestSent
  \/ DeleteAddressRequestSent
  \/ Complete

AddressSpec == Init /\ [][AddressNext]_vars

----------------------------------------------------------------------------
(* POST /customer/ handled concurrently: storeCustomer runs on one goroutine
   for each request, and the calls of the goroutines on the shared store
   interleave *)

\* a request arrives and its body is validated; no store call is made yet
CreateArrives(h) ==
  \E body \in CustomerBodies :
    LET r == Request("POST", "/customer/", <<>>, <<>>, body)
        v == ValidateRequest(r.Body, "CreateCustomerRequest")
        cx == [IdleHandler EXCEPT !.r = r]
    IN /\ inflight[h].pc = "idle"
       /\ inflight' = [inflight EXCEPT ![h] =
                         IF ~v.ok THEN [Fail(cx, StatusBadRequest, v.err) EXCEPT !.pc = "done"]
                         ELSE [cx EXCEPT !.pc = "GetCustomerByEmail"]]
       /\ UNCHANGED <<store, nextId, now, last, codec, addressStore, nextAddressId,
                      deletedWith>>

\* the call of GetCustomerByEmail and the branch on its result
CreateLooksUpEmail(h) ==
  \E found \in GetCustomerByEmail(store, inflight[h].r.Body.Email) :
    LET c1 == Called(inflight[h], "GetCustomerByEmail")
    IN /\ inflight[h].pc = "GetCustomerByEmail"
       /\ inflight' = [inflight EXCEPT ![h] =
                         IF ~found.err
                           THEN [Fail(c1, StatusBadRequest, ErrExistingUser) EXCEPT !.pc = "done"]
                         ELSE [c1 EXCEPT !.pc = "StoreCustomer"]]
       /\ UNCHANGED <<store, nextId, now, last, codec, addressStore, nextAddressId,
                      deletedWith>>

\* the call of StoreCustomer, then the token and the response
CreateStores(h) ==
  LET customer == getCustomerFromCreateCustomerRequest(inflight[h].r.Body)
      stored == StoreCustomer(store, nextId, customer)
      customerJWT == GenerateJWT(secretKey, expiresAt, stored.id, now)
      c2 == Called(inflight[h], "StoreCustomer")
  IN /\ inflight[h].pc = "StoreCustomer"
     /\ nextId <= MaxId
     /\ store' = stored.store
     /\ nextId' = stored.nextId
     /\ inflight' = [inflight EXCEPT ![h] =
                       [c2 EXCEPT !.issued = Append(@, customerJWT),
                                  !.w = HeaderAddToken(WriteHeader(c2.w, StatusAccepted),
                                                       customerJWT),
                                  !.pc = "done"]]
     /\ UNCHANGED <<now, last, codec, addressStore, nextAddressId, deletedWith>>

ConcurrentNext ==
  \E h \in Handlers :
    \/ CreateArrives(h)
    \/ CreateLooksUpEmail(h)
    \/ CreateStores(h)

ConcurrentSpec == Init /\ [][ConcurrentNext]_vars

----------------------------------------------------------------------------
(* Tokens that outlive store changes: customers are created, updated and
   deleted while time passes, and deletedWith keeps the tokens with which a
   DELETE /customer/ removed a record *)

\* tokens of customers 1 and 2 that expire after one second or never on this
\* clock
SessionTokenHeaders ==
  {<<>>} \cup {<<SignedString(HS256, secretKey, s, e)>> : s \in IdSubjects, e \in {1, FarExp}}

\* Peter's record with a new password
PasswordUpdate == [Peter EXCEPT !.Password = <<"n", "w">>]

\* one request served from arrival to response, the token of a DELETE that
\* removed a record remembered
SessionServe(op, r) ==
  \E found \in GetCustomerByEmail(store, r.Body.Email) :
    LET cx == ServeHTTP(NewContext(store, nextId), r, found, now)
    IN /\ last.op = "none"
       /\ store' = cx.store
       /\ nextId' = cx.nextId
       /\ last' = [subject |-> cx.subject, w |-> cx.w, calls |-> cx.calls,
                   issued |-> cx.issued, panicked |-> cx.panicked,
                   handler |-> cx.handler, r |-> r, op |-> op, pre |-> store,
                   at |-> now, preAddresses |-> addressStore]
       /\ deletedWith' = IF op = "delete" /\ cx.handler = "deleteCustomer"
                            /\ cx.w.code = StatusOK
                           THEN deletedWith \cup {r.Token[1]}
                           ELSE deletedWith
       /\ UNCHANGED <<now, codec, addressStore, nextAddressId, inflight>>

SessionGet ==
  \E token \in SessionTokenHeaders, subject \in SubjectHeaders :
    SessionServe("get", Request("GET", "/customer/", token, subject, EmptyBody))

SessionDelete ==
  \E token \in SessionTokenHeaders, subject \in SubjectHeaders :
    SessionServe("delete", Request("DELETE", "/customer/", token, subject, EmptyBody))

SessionUpdate ==
  \E token \in SessionTokenHeaders, subject \in SubjectHeaders :
    SessionServe("update", Request("PUT", "/customer/", token, subject, PasswordUpdate))

SessionNext ==
  \/ CreateCustomer
  \/ SessionGet
  \/ SessionDelete
  \/ SessionUpdate
  \/ Complete
  \/ Tick

SessionSpec == Init /\ [][SessionNext]_vars

----------------------------------------------------------------------------
(* The token codec on its own: tokens are issued or presented, time passes,
   and they are verified under some key *)

CodecDurations == 0..(2 * TicksPerSecond)

CodecSubjects == {-1, 0, 1, 7, 12}

\* GenerateJWT called at the current instant
CodecIssue ==
  \E secret \in Keys, d \in CodecDurations, subject \in CodecSubjects :
    /\ codec.phase = "idle"
    /\ codec' = [NoCodec EXCEPT !.phase = "issued",
                                !.token = GenerateJWT(secret, d, subject, now),
                                !.alg = HS256, !.signKey = secret,
                                !.subject = subject, !.expiry = now + d,
                                !.issuedAt = now, !.generated = TRUE]
    /\ UNCHANGED <<store, nextId, now, last, rest>>

\* a token made elsewhere, under any algorithm and key
CodecPresent ==
  \E alg \in Algs, key \in Keys, sub \in {<<"1">>, <<>>, <<"x">>}, e \in ExpSeconds :
    /\ codec.phase = "idle"
    /\ codec' = [NoCodec EXCEPT !.phase = "issued",
                                !.token = SignedString(alg, key, sub, e),
                                !.alg = alg, !.signKey = key, !.issuedAt = now]
    /\ UNCHANGED <<store, nextId, now, last, rest>>

\* VerifyJWT, then getIDFromToken on the verified token
CodecVerify ==
  \E key \in Keys :
    LET verified == VerifyJWT(codec.token, key, now)
        parsed == getIDFromToken(codec.token)
    IN /\ codec.phase = "issued"
       /\ codec' = [codec EXCEPT !.phase = "verified", !.verifyKey = key,
                                 !.verifiedAt = now, !.ok = verified.ok,
                                 !.id = IF verified.ok THEN parsed.id ELSE -1]
       /\ UNCHANGED <<store, nextId, now, last, rest>>

CodecReset ==
  /\ codec.phase = "verified"
  /\ codec' = NoCodec
  /\ UNCHANGED <<store, nextId, now, last, rest>>

CodecNext ==
  \/ CodecIssue
  \/ CodecPresent
  \/ CodecVerify
  \/ CodecReset
  \/ Tick

CodecSpec == Init /\ [][CodecNext]_vars

----------------------------------------------------------------------------
(* Properties *)

AuthenticatedOps == {"get", "delete", "update"}

\* the token of the request in hand (the first value of its Token header)
Presented == last.r.Token[1]

GatePassed == last.op \in AuthenticatedOps /\ last.handler # "none"

\* a token that is well formed, HS256, signed with the key over its own claims
\* and not expired at instant t
TokenVerifies(tok, key, t) ==
  /\ tok.wf
  /\ tok.alg = "HS256"
  /\ tok.sig = <<"HS256", key, Len(tok.sub), tok.sub, tok.exp>>
  /\ (tok.exp = NoExp \/ t < tok.exp * TicksPerSecond)

IsIntegerString(str) ==
  LET from == IF Len(str) > 0 /\ str[1] \in {"+", "-"} THEN 2 ELSE 1
  IN /\ Len(str) >= from
     /\ \A i \in from..Len(str) :
          str[i] \in {"0", "1", "2", "3", "4", "5", "6", "7", "8", "9"}

Rejected401 ==
  /\ last.w.code = StatusUnauthorized
  /\ last.w.body.kind = "error"
  /\ last.w.body.Message # ""

Ids(st) == {c.Id : c \in st}

\* C1: for every request that passes the gate, the subject id the handler
\* reads from the first value of the Subject field is the subject of the
\* verified token, whatever Subject header the client sent.
C1_HandlerReadsTokenSubject ==
  GatePassed => Atoi(last.subject[1]).val = Atoi(Presented.sub).val

\* C2: the handler behind the gate runs only for a request with a Token field
\* whose token verifies under the server secret and has a non-empty integer
\* subject; every other request gets 401 with a message, the handler does not
\* run, and the store is neither called nor changed.
C2_GateGuardsHandler ==
  LET admissible == /\ last.r.Token # <<>>
                    /\ TokenVerifies(Presented, secretKey, last.at)
                    /\ Presented.sub # <<>>
                    /\ IsIntegerString(Presented.sub)
  IN last.op \in AuthenticatedOps =>
       /\ last.handler # "none" => admissible
       /\ ~admissible => /\ Rejected401
                         /\ last.handler = "none"
                         /\ last.calls = <<>>
                         /\ store = last.pre

\* a request with a validly signed token whose subject is not an integer is
\* turned away while the store holds customers
C2_Witness ==
  /\ last.op = "delete"
  /\ last.pre # {}
  /\ last.r.Token = <<SignedString(HS256, secretKey, <<"x">>, FarExp)>>
  /\ Rejected401

\* C3 as stated: a token issued for (secret, subjectId, expiry) verifies under
\* the same secret, with subject subjectId, at every instant before expiry.
C3_RoundTripBeforeExpiry ==
  (/\ codec.phase = "verified"
   /\ codec.generated
   /\ codec.verifyKey = codec.signKey
   /\ codec.verifiedAt < codec.expiry)
  => codec.ok /\ codec.id = codec.subject

\* C3 amended: a token issued for (secret, subjectId, expiry) verifies under
\* the same secret, with subject subjectId, at every instant before the expiry
\* cut down to whole seconds, which is the expiry the token carries.
C3_RoundTripBeforeWholeSecondExpiry ==
  (/\ codec.phase = "verified"
   /\ codec.generated
   /\ codec.verifyKey = codec.signKey
   /\ codec.verifiedAt < (codec.expiry \div TicksPerSecond) * TicksPerSecond)
  => codec.ok /\ codec.id = codec.subject

\* a token for the two-digit id 12, verified later than issued and before expiry
C3_Witness ==
  /\ codec.phase = "verified"
  /\ codec.generated
  /\ codec.subject = 12
  /\ codec.verifyKey = codec.signKey
  /\ codec.issuedAt < codec.verifiedAt
  /\ codec.verifiedAt < (codec.expiry \div TicksPerSecond) * TicksPerSecond
  /\ codec.ok

\* C4: a request to an authenticated endpoint with a token whose expiresAt is
\* at or before the instant of verification gets 401 and reaches no handler;
\* expiresAt equal to now counts as expired.
C4_ExpiredTokenRejected ==
  (/\ last.op \in AuthenticatedOps
   /\ last.r.Token # <<>>
   /\ Presented.exp # NoExp
   /\ Presented.exp * TicksPerSecond <= last.at)
  => Rejected401 /\ last.handler = "none"

\* a token of an existing customer, good in all but its expiry, which is
\* exactly the instant of the request
C4_Witness ==
  /\ last.op = "get"
  /\ last.r.Token # <<>>
  /\ Presented.exp # NoExp
  /\ Presented.exp * TicksPerSecond = last.at
  /\ Presented = SignedString(HS256, secretKey, <<"1">>, Presented.exp)
  /\ 1 \in Ids(last.pre)
  /\ Rejected401

\* C5: verification fails for every token signed with a secret other than the
\* verifier's and for every token whose algorithm is not HS256, "none"
\* included, however well formed and unexpired the token is.
C5_ForeignKeyOrAlgorithmRejected ==
  (/\ codec.phase = "verified"
   /\ (codec.alg # "HS256" \/ codec.signKey # codec.verifyKey))
  => ~codec.ok

\* an unexpired HS384 token signed with the verifier's own key is refused
C5_Witness ==
  /\ codec.phase = "verified"
  /\ codec.alg = "HS384"
  /\ codec.signKey = codec.verifyKey
  /\ codec.token.sub = <<"1">>
  /\ codec.token.exp # NoExp
  /\ codec.verifiedAt < codec.token.exp * TicksPerSecond
  /\ ~codec.ok

\* C6: GET, PUT and DELETE with a valid token for subject s leave every
\* customer with another id unchanged, answer with no other customer's record,
\* and PUT does not change the Id of the record it updates.
C6_OnlyTheSubjectsRecord ==
  GatePassed =>
    LET s == Atoi(Presented.sub).val
    IN /\ \A c \in last.pre : c.Id # s => c \in store
       /\ last.w.body.kind = "customer" =>
            \E c \in last.pre : c.Id = s /\ last.w.body = newGetCustomerResponse(c)
       /\ last.op = "update" => Ids(store) = Ids(last.pre)

\* C7: a POST /customer/ or POST /customer/login/ answered with 202 delivers
\* the issued token to the client in the Token header of the response.
C7_TokenHeaderDelivered ==
  (last.op \in {"create", "login"} /\ last.w.code = StatusAccepted)
  => last.issued # <<>> /\ last.w.sent = last.issued

\* C8: login issues a token only when a stored customer has the submitted
\* email and password, and the token's subject is that customer's id; a valid
\* payload with an unknown email or another password gets 401 with a message,
\* no token, and the store stays as it was.
C8_LoginIssuesOnlyOnMatch ==
  LET b == last.r.Body
      matches == {c \in last.pre : c.Email = b.Email /\ c.Password = b.Password}
  IN last.op = "login" =>
       /\ last.issued # <<>> =>
            /\ Len(last.issued) = 1
            /\ \E c \in matches : last.issued[1].sub = Itoa(c.Id)
       /\ (b.json /\ LoginCustomerRequest(b) /\ matches = {}) =>
            /\ Rejected401
            /\ last.issued = <<>>
            /\ last.w.header = <<>>
            /\ store = last.pre

\* a login with the email of a stored customer and another password is refused
C8_Witness ==
  /\ last.op = "login"
  /\ last.r.Body.json /\ LoginCustomerRequest(last.r.Body)
  /\ \E c \in last.pre : c.Email = last.r.Body.Email /\ c.Password # last.r.Body.Password
  /\ ~\E c \in last.pre : c.Email = last.r.Body.Email /\ c.Password = last.r.Body.Password
  /\ Rejected401

\* what a valid POST /customer/ with a new email does: one record more, with
\* the five fields of the request, and a token for the id the store gave it
CreatedOne ==
  LET b == last.r.Body
  IN \E id \in Ids(store) \ Ids(last.pre) :
       /\ store = last.pre \cup {[FirstName |-> b.FirstName,
                                   LastName |-> b.LastName,
                                   PhoneNumber |-> b.PhoneNumber,
                                   Email |-> b.Email, Password |-> b.Password,
                                   Id |-> id]}
       /\ Len(last.issued) = 1
       /\ last.issued[1].sub = Itoa(id)

RefusedAsExisting ==
  /\ last.w.code = StatusBadRequest
  /\ last.w.body.kind = "error"
  /\ last.w.body.Message = ErrExistingUser
  /\ last.issued = <<>>
  /\ store = last.pre

\* C9 as stated: every POST /customer/ with the email of a stored customer is
\* refused with ExistingUser (400), no token, store unchanged; a valid POST
\* with a new email adds one record with the five fields and issues a token
\* for the assigned id.
C9_DuplicateEmailRefused ==
  LET b == last.r.Body
      known == \E c \in last.pre : c.Email = b.Email
  IN last.op = "create" =>
       /\ (b.json /\ known) => RefusedAsExisting
       /\ (b.json /\ CreateCustomerRequest(b) /\ ~known) => CreatedOne

\* C9 amended: a POST /customer/ that passes validation and has the email of a
\* stored customer is refused with ExistingUser (400), no token, store
\* unchanged; a valid POST with a new email adds one record with the five
\* fields and issues a token for the assigned id.
C9_ValidDuplicateEmailRefused ==
  LET b == last.r.Body
      known == \E c \in last.pre : c.Email = b.Email
  IN last.op = "create" =>
       /\ (b.json /\ CreateCustomerRequest(b) /\ known) => RefusedAsExisting
       /\ (b.json /\ CreateCustomerRequest(b) /\ ~known) => CreatedOne

\* a valid POST with the email of a stored customer, refused
C9_Witness ==
  /\ last.op = "create"
  /\ last.r.Body.json /\ CreateCustomerRequest(last.r.Body)
  /\ \E c \in last.pre : c.Email = last.r.Body.Email
  /\ RefusedAsExisting

\* C10: no two stored customers have the same email, after any sequence of
\* create, update and delete requests.
C10_EmailUnique ==
  \A c, d \in store : c.Email = d.Email => c = d

\* the subject of the presented token, as the id it parses to
TokenSubjectId == Atoi(Presented.sub).val

\* C11: a GET, PUT or DELETE on /customer/ whose token passes the gate and
\* whose subject is the id of no stored customer is answered with 404 and the
\* MissingCustomer message, and the store is left as it was.
C11_MissingCustomerNotFound ==
  (GatePassed /\ TokenSubjectId \notin Ids(last.pre)) =>
    /\ ~last.panicked
    /\ last.w.code = StatusNotFound
    /\ last.w.body.kind = "error"
    /\ last.w.body.Message = ErrMissingCustomer
    /\ store = last.pre

\* the struct the payload of the request in hand is validated against
PayloadTarget ==
  CASE last.op = "create" -> "CreateCustomerRequest"
    [] last.op = "login" -> "LoginCustomerRequest"
    [] OTHER -> "UpdateCustomerRequest"

PayloadFails == ~ValidateRequest(last.r.Body, PayloadTarget).ok

\* C12: on the create and the update endpoint the validator runs before any
\* store access: a request whose payload fails validation makes no store call.
C12_ValidationBeforeStore ==
  ((last.op = "create" \/ (last.op = "update" /\ GatePassed)) /\ PayloadFails) =>
    last.calls = <<>>

Refused400 ==
  /\ last.w.code = StatusBadRequest
  /\ last.w.body.kind = "error"
  /\ last.w.body.Message # ""
  /\ store = last.pre

\* C13 as stated: every create, update or login request whose payload fails
\* validation is answered with 400 and a message body, and the store is left
\* as it was.
C13_InvalidPayloadRefused ==
  (last.op \in {"create", "update", "login"} /\ PayloadFails) => Refused400

\* C13 amended: a create or login request, or an update request that has
\* passed the authentication gate, whose payload fails validation is answered
\* with 400 and a message body, and the store is left as it was.
C13_InvalidPayloadRefusedBehindGate ==
  ((last.op \in {"create", "login"} \/ (last.op = "update" /\ GatePassed))
     /\ PayloadFails) => Refused400

\* an update with the phone number "abc", sent with the token of a stored
\* customer, was refused
C13_Witness ==
  /\ last.op = "update"
  /\ GatePassed
  /\ TokenSubjectId \in Ids(last.pre)
  /\ last.r.Body.json
  /\ last.r.Body.PhoneNumber = <<"a", "b", "c">>
  /\ Refused400

AddressGatePassed ==
  last.op \in {"updateAddress", "deleteAddress"} /\ last.handler # "none"

AddressPayloadValid ==
  ValidateAddressRequest(last.r.Body,
                         IF last.op = "deleteAddress" THEN "DeleteAddressRequest"
                         ELSE "UpdateAddressRequest").ok

\* the addresses the store held under the id the request names
Targets == {a \in last.preAddresses : a.Id = last.r.Body.Id}

RefusedWith(code, msg) ==
  /\ last.w.code = code
  /\ last.w.body.kind = "error"
  /\ last.w.body.Message = msg

\* the update or delete the request asks for has been carried out
AddressOperationPerformed ==
  /\ last.w.code = StatusOK
  /\ IF last.op = "deleteAddress"
       THEN addressStore = {a \in last.preAddresses : a.Id # last.r.Body.Id}
       ELSE addressStore =
              {a \in last.preAddresses : a.Id # last.r.Body.Id}
              \cup {[a EXCEPT !.City = last.r.Body.City] : a \in Targets}

\* C14: an update or delete of a stored address by an authenticated, stored
\* subject is performed iff the subject of the token equals the customerId the
\* store holds for the address: when they differ, both being stored
\* customers, the answer is 401 UnauthorizedAction and the address store is
\* unchanged; when they are equal the store holds the updated address, or no
\* longer holds the deleted one.
C14_OnlyTheOwnerChangesAnAddress ==
  (AddressGatePassed /\ AddressPayloadValid /\ TokenSubjectId \in Ids(last.pre)) =>
    \A a \in Targets :
      /\ a.CustomerId = TokenSubjectId => AddressOperationPerformed
      /\ (a.CustomerId # TokenSubjectId /\ a.CustomerId \in Ids(last.pre)) =>
           /\ RefusedWith(StatusUnauthorized, ErrUnathorizedAction)
           /\ addressStore = last.preAddresses

\* C15: on address update and delete existence is checked before ownership: a
\* token whose subject is no stored customer gets 404 MissingCustomer, also
\* when the address exists; otherwise an address id the store does not hold
\* gets 404 MissingAddress; 401 UnauthorizedAction is only given when both the
\* customer and the address exist.
C15_ExistenceBeforeOwnership ==
  (AddressGatePassed /\ AddressPayloadValid) =>
    /\ TokenSubjectId \notin Ids(last.pre) =>
         RefusedWith(StatusNotFound, ErrMissingCustomer)
    /\ (TokenSubjectId \in Ids(last.pre) /\ Targets = {}) =>
         RefusedWith(StatusNotFound, ErrMissingAddress)
    /\ RefusedWith(StatusUnauthorized, ErrUnathorizedAction) =>
         (TokenSubjectId \in Ids(last.pre) /\ Targets # {})

\* C16: when two POST /customer/ requests with the same email, which the store
\* does not hold yet, are handled concurrently, at most one of them gets 202
\* and a token, and the store ends with at most one customer of that email.
C16_OneCustomerPerEmailUnderConcurrency ==
  \A g, h \in Handlers :
    (/\ g # h
     /\ inflight[g].pc # "idle"
     /\ inflight[h].pc # "idle"
     /\ inflight[g].r.Body.Email = inflight[h].r.Body.Email) =>
      /\ ~(inflight[g].w.code = StatusAccepted /\ inflight[h].w.code = StatusAccepted)
      /\ Cardinality({c \in store : c.Email = inflight[g].r.Body.Email}) <= 1

\* C17: whether a token passes the gate does not depend on the store: a token
\* that verifies and carries an integer subject passes it whatever has been
\* created, updated or deleted; and after a DELETE /customer/ with a token
\* removed the record, a GET /customer/ with the same token, still unexpired,
\* is answered 404 MissingCustomer, not 401.
C17_TokenOutlivesItsCustomer ==
  (last.op \in AuthenticatedOps /\ last.r.Token # <<>>
     /\ TokenVerifies(Presented, secretKey, last.at)
     /\ Presented.sub # <<>> /\ IsIntegerString(Presented.sub)) =>
    /\ GatePassed
    /\ (last.op = "get" /\ Presented \in deletedWith) =>
         RefusedWith(StatusNotFound, ErrMissingCustomer)

====
